---------------------------- MODULE Spec2Model ----------------------------
(***************************************************************************)
(* A model of sdb.h 0.3.0 (Jotrorox/sdb): the run-length and LZ77 codecs,  *)
(* the binary serializer, and the database handle with its table/entry     *)
(* lists, save/open and the set/get/batch/create/destroy operations.       *)
(*                                                                         *)
(* Bytes are naturals in 0..255, byte strings are sequences of bytes, and  *)
(* C strings are byte strings without a zero byte.  C positions are        *)
(* 0-based; sequences are 1-based, so data[p] of the source is data[p+1].  *)
(***************************************************************************)
EXTENDS Integers, Sequences, FiniteSets, TLC

(***************************************************************************)
(* Program constants                                                       *)
(***************************************************************************)
WINDOW_SIZE == 1024

MIN_MATCH == 3

MaxRun == 255

InitialCapacity == 16

HashSeed == 5381

(***************************************************************************)
(* Bounds of the model                                                     *)
(***************************************************************************)
\* longest input handed to the codecs (besides the long runs)
MaxLen == 6

\* length of the long run of identical bytes handed to the codecs
LongRun == 48

\* largest value an indeterminate (never written) size_t is drawn from
MaxGarbage == 2

\* tables per database, entries per table, operations per batch
MaxTables == 2

MaxEntries == 2

MaxBatch == 2

\* calls the program makes after its first sdb_open, over all its runs
MaxCalls == 5

\* tables per database and entries per table where the serializer is run alone
ImageTables == 2

ImageEntries == 1

\* bytes in the body of a file that sdb_save did not write, and the sizes its
\* header declares
MaxBody == 4

\* a run of identical bytes longer than one (count, value) pair can hold
CapRun == 256

(***************************************************************************)
(* Byte strings                                                            *)
(***************************************************************************)
Byte == 0..255

\* The bytes the codec inputs are built from.
Alphabet == {0, 97}

RECURSIVE StringsUpTo(_, _)
StringsUpTo(S, n) ==
    IF n = 0 THEN {<<>>}
    ELSE LET shorter == StringsUpTo(S, n - 1)
         IN  shorter \cup {Append(s, b) : s \in {t \in shorter : Len(t) = n - 1}, b \in S}

RunOf(b, n) == [i \in 1..n |-> b]

\* the byte strings of length n over S
StringsOf(S, n) == [1..n -> S]

\* An indeterminate size_t: a variable the code reads without having written it.
Indeterminate == 0..MaxGarbage

(***************************************************************************)
(* Run-length codec.  A codec call returns the buffer pointer (null or     *)
(* not), the bytes of the buffer, and whether *out_len was written.        *)
(***************************************************************************)
NullResult == [null |-> TRUE, data |-> <<>>, lenSet |-> FALSE, len |-> 0, fault |-> "none"]

\* no image decoded yet
NoImage == [table_count |-> 0, tables |-> <<>>, fault |-> FALSE]

BufResult(d, n, f) == [null |-> FALSE, data |-> d, lenSet |-> TRUE, len |-> n, fault |-> f]

\* the same loop condition with the count stopping one short of the range of a
\* byte
rle_continues_short(data, pos, count) ==
    pos + count < Len(data) /\ data[pos + count + 1] = data[pos + 1] /\ count < MaxRun - 1

\* the condition of the inner while loop of rle_compress
rle_continues(data, pos, count) ==
    pos + count < Len(data) /\ data[pos + count + 1] = data[pos + 1] /\ count < MaxRun

\* the inner while loop of rle_compress: count starts at 1 and is incremented
\* while the condition holds, so it ends at the first count that fails it
rle_run(data, pos) ==
    CHOOSE count \in 1..MaxRun :
        /\ ~rle_continues(data, pos, count)
        /\ \A c \in 1..(count - 1) : rle_continues(data, pos, c)

\* the outer while loop of rle_compress; s holds its variables pos and compressed
RECURSIVE rle_pairs(_, _)
rle_pairs(data, s) ==
    IF s.pos < Len(data)
    THEN LET count == rle_run(data, s.pos)
         IN  rle_pairs(data, [pos |-> s.pos + count,
                              compressed |-> s.compressed \o <<count, data[s.pos + 1]>>])
    ELSE s.compressed

rle_compress(data, data_len) ==
    IF data_len = 0 THEN NullResult
    ELSE LET compressed == rle_pairs(data, [pos |-> 0, compressed |-> <<>>])
         IN  BufResult(compressed, Len(compressed),
                       IF Len(compressed) > data_len * 2 THEN "write_past_output" ELSE "none")

\* a read of compressed[p]: past the end of the buffer the byte is not the file's
InBuf(buf, p) == p >= 0 /\ p < Len(buf)

ByteAt(buf, p) == IF InBuf(buf, p) THEN buf[p + 1] ELSE 0

\* the first pass of rle_decompress: the sum of the count bytes
RECURSIVE rle_size(_, _, _)
rle_size(compressed, comp_len, i) ==
    IF i < comp_len THEN ByteAt(compressed, i) + rle_size(compressed, comp_len, i + 2)
    ELSE 0

\* the second pass of rle_decompress; s holds its variables i and decompressed
RECURSIVE rle_expand(_, _, _)
rle_expand(compressed, comp_len, s) ==
    IF s.i < comp_len
    THEN rle_expand(compressed, comp_len,
                    [i |-> s.i + 2,
                     decompressed |-> s.decompressed
                         \o RunOf(ByteAt(compressed, s.i + 1), ByteAt(compressed, s.i))])
    ELSE s.decompressed

\* whether one of the two passes reads compressed[] at or past comp_len
rle_reads_past(compressed, comp_len) ==
    \E i \in 0..(comp_len - 1) : i % 2 = 0 /\ ~InBuf(compressed, i + 1)

rle_decompress(compressed, comp_len) ==
    IF compressed.null \/ comp_len = 0 THEN NullResult
    ELSE BufResult(rle_expand(compressed.data, comp_len, [i |-> 0, decompressed |-> <<>>]),
                   rle_size(compressed.data, comp_len, 0),
                   IF rle_reads_past(compressed.data, comp_len) THEN "read_past_input"
                   ELSE "none")

(***************************************************************************)
(* LZ77 codec                                                              *)
(***************************************************************************)
\* the condition of the innermost while loop of lz77_compress
lz77_continues(data, i, j, len) ==
    i + len < Len(data) /\ j + len < i /\ data[i + len + 1] = data[j + len + 1]
    /\ len < MaxRun

\* the innermost while loop of lz77_compress: the match of data[i..] with data[j..]
\* is the first len, counted up from 0, that fails the condition
lz77_match(data, i, j) ==
    CHOOSE len \in 0..MaxRun :
        /\ ~lz77_continues(data, i, j, len)
        /\ \A l \in 0..(len - 1) : lz77_continues(data, i, j, l)

\* the search of the sliding window, s holding j, best_len and best_offset: the
\* first longest match wins
RECURSIVE lz77_search(_, _, _)
lz77_search(data, i, s) ==
    IF s.j < i
    THEN LET len == lz77_match(data, i, s.j)
         IN  lz77_search(data, i,
                         IF len > s.best_len
                         THEN [j |-> s.j + 1, best_len |-> len, best_offset |-> i - s.j]
                         ELSE [s EXCEPT !.j = s.j + 1])
    ELSE s

\* the for loop of lz77_compress over the input positions, s holding i and compressed
RECURSIVE lz77_tokens(_, _)
lz77_tokens(data, s) ==
    IF s.i < Len(data)
    THEN LET window_start == IF s.i > WINDOW_SIZE THEN s.i - WINDOW_SIZE ELSE 0
             best == lz77_search(data, s.i,
                                 [j |-> window_start, best_len |-> 0, best_offset |-> 0])
         IN  IF best.best_len >= MIN_MATCH
             THEN lz77_tokens(data,
                      [i |-> s.i + best.best_len,
                       compressed |-> s.compressed
                           \o <<1, best.best_offset % 256,
                                (best.best_offset \div 256) % 256, best.best_len>>])
             ELSE lz77_tokens(data, [i |-> s.i + 1,
                                     compressed |-> s.compressed \o <<0, data[s.i + 1]>>])
    ELSE s.compressed

\* realloc(compressed, 0) of an empty output returns no buffer (glibc frees it);
\* lz77_decompress treats a null buffer and a zero length alike.
lz77_compress(data, data_len) ==
    LET compressed == lz77_tokens(data, [i |-> 0, compressed |-> <<>>])
    IN  [null |-> Len(compressed) = 0, data |-> compressed, lenSet |-> TRUE,
         len |-> Len(compressed),
         fault |-> IF Len(compressed) > data_len * 2 THEN "write_past_output" ELSE "none"]

\* the copy loop of a match token, s holding the output so far and the bytes
\* left to copy: byte by byte from offset positions back.  A byte read outside
\* the output so far (offset 0, or before its start) is taken as 0.
RECURSIVE lz77_copy(_, _)
lz77_copy(s, offset) ==
    IF s.left > 0
    THEN lz77_copy([data |-> Append(s.data,
                                    IF offset >= 1 /\ offset <= Len(s.data)
                                    THEN s.data[Len(s.data) - offset + 1]
                                    ELSE 0),
                    left |-> s.left - 1],
                   offset)
    ELSE s.data

FirstFault(old, new) == IF old = "none" THEN new ELSE old

\* the while loop of lz77_decompress over the tokens, s holding pos, the output
\* so far and the first read outside a buffer
RECURSIVE lz77_replay(_, _, _)
lz77_replay(compressed, comp_len, s) ==
    IF s.pos < comp_len
    THEN IF ByteAt(compressed, s.pos) = 0
         THEN lz77_replay(compressed, comp_len,
                  [pos |-> s.pos + 2,
                   data |-> Append(s.data, ByteAt(compressed, s.pos + 1)),
                   fault |-> FirstFault(s.fault,
                                 IF InBuf(compressed, s.pos + 1) THEN "none"
                                 ELSE "read_past_input")])
         ELSE LET offset == ByteAt(compressed, s.pos + 1)
                            + 256 * ByteAt(compressed, s.pos + 2)
                  length == ByteAt(compressed, s.pos + 3)
              IN  lz77_replay(compressed, comp_len,
                      [pos |-> s.pos + 4,
                       data |-> lz77_copy([data |-> s.data, left |-> length], offset),
                       fault |-> FirstFault(s.fault,
                                     IF ~InBuf(compressed, s.pos + 3) THEN "read_past_input"
                                     ELSE IF length > 0 /\ offset > Len(s.data)
                                          THEN "read_before_output"
                                     ELSE IF length > 0 /\ offset = 0
                                          THEN "read_uninitialized"
                                     ELSE "none")])
    ELSE s

\* the output buffer holds comp_len * 2 bytes; decom_pos only grows, so a byte is
\* written past it exactly when the final decom_pos exceeds it
lz77_decompress(compressed, comp_len) ==
    IF compressed.null \/ comp_len = 0 THEN NullResult
    ELSE LET r == lz77_replay(compressed.data, comp_len,
                              [pos |-> 0, data |-> <<>>, fault |-> "none"])
         IN  BufResult(r.data, Len(r.data),
                       FirstFault(r.fault, IF Len(r.data) > comp_len * 2
                                           THEN "write_past_output" ELSE "none"))

(***************************************************************************)
(* Binary serializer.  An int is 4 bytes in the host's layout (little      *)
(* endian, two's complement).  A table is a record: its name, its entry    *)
(* list from head to tail as a sequence of (key, value), the hash index    *)
(* (capacity and slot array, a slot holding 0 for NULL or the position of  *)
(* an entry), whether the index fields were ever written, and whether the  *)
(* table's memory has been freed.                                          *)
(***************************************************************************)
UInt31Bytes(u) ==
    <<u % 256, (u \div 256) % 256, (u \div 65536) % 256, (u \div 16777216) % 256>>

\* the 4 bytes of an int: those of n, or the complement of those of -n-1
Int32Bytes(n) ==
    IF n >= 0 THEN UInt31Bytes(n)
    ELSE LET c == UInt31Bytes(-n - 1) IN [k \in 1..4 |-> 255 - c[k]]

\* write_to_buffer doubles the buffer until the data fits, then appends the data
write_to_buffer(buffer, data) == buffer \o data

\* strlen: the bytes before the first zero byte
strlen(str) ==
    IF \E i \in 1..Len(str) : str[i] = 0
    THEN (CHOOSE i \in 1..Len(str) : str[i] = 0 /\ \A j \in 1..(i - 1) : str[j] # 0) - 1
    ELSE Len(str)

CString(bytes) == SubSeq(bytes, 1, strlen(bytes))

\* an entry layout the decoder does not read back: the value bytes before the
\* key bytes
RECURSIVE save_entries_value_first(_, _, _)
save_entries_value_first(buffer, entries, j) ==
    IF j <= Len(entries)
    THEN save_entries_value_first(
             buffer \o Int32Bytes(strlen(entries[j].key))
                    \o Int32Bytes(strlen(entries[j].value))
                    \o CString(entries[j].value) \o CString(entries[j].key),
             entries, j + 1)
    ELSE buffer

\* the inner while loop of sdb_save: key_len, value_len, key, value per entry
RECURSIVE save_entries(_, _, _)
save_entries(buffer, entries, j) ==
    IF j <= Len(entries)
    THEN LET e == entries[j]
             b1 == write_to_buffer(buffer, Int32Bytes(strlen(e.key)))
             b2 == write_to_buffer(b1, Int32Bytes(strlen(e.value)))
             b3 == write_to_buffer(b2, CString(e.key))
             b4 == write_to_buffer(b3, CString(e.value))
         IN  save_entries(b4, entries, j + 1)
    ELSE buffer

\* the for loop of sdb_save over the tables: name_len, name, entry_count, entries
RECURSIVE save_tables(_, _, _, _)
save_tables(buffer, tables, table_count, i) ==
    IF i <= table_count
    THEN LET t == tables[i]
             b1 == write_to_buffer(buffer, Int32Bytes(strlen(t.name)))
             b2 == write_to_buffer(b1, CString(t.name))
             b3 == write_to_buffer(b2, Int32Bytes(Len(t.entries)))
         IN  save_tables(save_entries(b3, t.entries, 1), tables, table_count, i + 1)
    ELSE buffer

\* the image sdb_save builds before compressing it
save_image(tables, table_count) ==
    save_tables(write_to_buffer(<<>>, Int32Bytes(table_count)), tables, table_count, 1)

\* memcpy(&n, buffer + pos, sizeof(int))
ReadInt32(buffer, pos) ==
    LET b == [k \in 0..3 |-> ByteAt(buffer, pos + k)]
    IN  IF b[3] < 128
        THEN b[0] + 256 * b[1] + 65536 * b[2] + 16777216 * b[3]
        ELSE -((255 - b[0]) + 256 * (255 - b[1]) + 65536 * (255 - b[2])
               + 16777216 * (255 - b[3])) - 1

ReadBytes(buffer, pos, n) == [k \in 1..n |-> ByteAt(buffer, pos + k - 1)]

\* a read of n bytes at pos that leaves the buffer, or a negative length
BadRead(buffer, pos, n) == n < 0 \/ pos + n > Len(buffer)

\* a table as sdb_open leaves it: capacity and the slot array are never written
LoadedTable(name, entries) ==
    [name |-> name, entries |-> entries, capacity |-> 0, slots |-> <<>>,
     indexInit |-> FALSE, freed |-> FALSE]

\* the inner for loop of sdb_open over the entries of one table.  Nothing stops
\* the loops at the end of the buffer; what they read and build from the first
\* read outside it on is not followed (fault).
RECURSIVE open_entries(_, _, _, _, _, _)
open_entries(buffer, pos, j, entry_count, entries, fault) ==
    IF j < entry_count
    THEN LET key_len == ReadInt32(buffer, pos)
             value_len == ReadInt32(buffer, pos + 4)
             kpos == pos + 8
             vpos == kpos + key_len
             bad == BadRead(buffer, pos, 8) \/ BadRead(buffer, kpos, key_len)
                    \/ BadRead(buffer, vpos, value_len)
         IN  IF key_len < 0 \/ value_len < 0 \/ bad
             THEN [entries |-> entries, pos |-> pos, fault |-> TRUE]
             ELSE open_entries(buffer, vpos + value_len, j + 1, entry_count,
                               Append(entries,
                                      [key |-> CString(ReadBytes(buffer, kpos, key_len)),
                                       value |-> CString(ReadBytes(buffer, vpos, value_len))]),
                               fault \/ bad)
    ELSE [entries |-> entries, pos |-> pos, fault |-> fault]

\* the outer for loop of sdb_open over the tables
RECURSIVE open_tables(_, _, _, _, _, _)
open_tables(buffer, pos, i, table_count, tables, fault) ==
    IF i < table_count
    THEN LET name_len == ReadInt32(buffer, pos)
             npos == pos + 4
             epos == npos + name_len
             entry_count == ReadInt32(buffer, epos)
             bad == BadRead(buffer, pos, 4) \/ BadRead(buffer, npos, name_len)
                    \/ BadRead(buffer, epos, 4)
         IN  IF name_len < 0 \/ bad
             THEN [tables |-> tables, fault |-> TRUE]
             ELSE LET r == open_entries(buffer, epos + 4, 0, entry_count, <<>>, FALSE)
                  IN  open_tables(buffer, r.pos, i + 1, table_count,
                                  Append(tables,
                                         LoadedTable(CString(ReadBytes(buffer, npos, name_len)),
                                                     r.entries)),
                                  fault \/ bad \/ r.fault)
    ELSE [tables |-> tables, fault |-> fault]

\* the decoding of a decompressed image in sdb_open: the table count, the tables,
\* and whether a read left the buffer (undefined behaviour)
open_image(buffer) ==
    LET table_count == ReadInt32(buffer, 0)
        r == open_tables(buffer, 4, 0, table_count, <<>>, FALSE)
    IN  [table_count |-> table_count,
         tables |-> IF table_count > 0 THEN r.tables ELSE <<>>,
         fault |-> BadRead(buffer, 0, 4) \/ (table_count > 0 /\ r.fault)]

(***************************************************************************)
(* The database handle and the file                                        *)
(***************************************************************************)
VARIABLES
    status,         \* "open": the handle is live; "closed"; "crashed": the process died
    compress_type,  \* sdb->compress_type, the mode every open of the path is given
    tables,         \* sdb->tables[0 .. table_count-1]
    table_count,    \* sdb->table_count
    disk,           \* the file at sdb->path: absent, empty, or written by sdb_save,
                    \* held as the tables it was written from (sdb_file gives its bytes)
    last,           \* the last call: its name, arguments, and what held before it
    ret,            \* what the last call returned
    nwrites,        \* how many times the last call opened the file for writing
    ub,             \* whether the last call executed undefined behaviour
    pc,             \* "idle", or "batch" inside the loop of sdb_batch_execute
    calls,          \* how many calls the program has made
    expect,         \* per table and key, the value the last plain sdb_table_set gave it
    cin,            \* a codec run alone: the input byte string (or the image encoded)
    cmid,           \* a codec run alone: the compressed buffer and its reported length
    cout,           \* a codec run alone: the decompressed buffer and its reported length
    decoded,        \* what the decoding loop of sdb_open made of the image in cin
    cpc             \* where a codec or the serializer run alone stands; "off" otherwise

vars == <<status, compress_type, tables, table_count, disk, last, ret, nwrites, ub,
          pc, calls, expect, cin, cmid, cout, cpc, decoded>>

dbvars == <<status, compress_type, tables, table_count, disk, last, ret, nwrites, ub,
            pc, calls, expect>>

CompressTypes == {"SDB_COMPRESS_NONE", "SDB_COMPRESS_RLE", "SDB_COMPRESS_LZ77"}

\* The names, keys and values the calls are made with (C strings).
TableNames == {<<116>>, <<117>>}

Keys == {<<107>>, <<107, 50>>}

Values == {<<118>>, <<119>>}

NoFile == [state |-> "absent", saved |-> <<>>, saved_count |-> 0]

\* fopen(path, "wb") truncates: the file as a crash inside sdb_save leaves it
EmptyFile == [state |-> "empty", saved |-> <<>>, saved_count |-> 0]

\* what sdb_save reads of the tables: the names and the entry lists
Snapshot(ts) == [i \in 1..Len(ts) |-> [name |-> ts[i].name, entries |-> ts[i].entries]]

WrittenFile(ts, n) == [state |-> "written", saved |-> Snapshot(ts), saved_count |-> n]

\* The bytes files are made of where something else than sdb_save wrote them:
\* enough for RLE pairs, LZ77 literal and match tokens, and the ints of an image.
FileBytes == {0, 1, 3}

\* a file given by its bytes: the two sizes of the header, and the body
RawFile(compressed_size, original_size, body) ==
    [state |-> "raw", saved |-> <<>>, saved_count |-> 0,
     compressed_size |-> compressed_size, original_size |-> original_size, body |-> body]

Void == [kind |-> "void", value |-> <<>>]

Null == [kind |-> "null", value |-> <<>>]

Pointer(v) == [kind |-> "value", value |-> v]

\* sdb_table_create's initialisation of the new table
NewTable(name) ==
    [name |-> CString(name), entries |-> <<>>, capacity |-> InitialCapacity,
     slots |-> [i \in 1..InitialCapacity |-> 0], indexInit |-> TRUE, freed |-> FALSE]

\* The state a call works on and leaves: the handle's memory, the file, the
\* writes so far, whether undefined behaviour was executed, whether it crashed.
Mem(ts, n, d) ==
    [tables |-> ts, table_count |-> n, disk |-> d, nwrites |-> 0, ub |-> FALSE,
     crashed |-> FALSE]

Crash(m) == [m EXCEPT !.crashed = TRUE, !.ub = TRUE]

\* sdb_table_find from index i on.  strcmp on a freed name reads freed memory:
\* the bytes are still the name (a hit when it is the name looked for) or have
\* been overwritten (a miss); either way the call has executed undefined behaviour.
RECURSIVE sdb_table_find_from(_, _, _, _, _)
sdb_table_find_from(ts, n, name, i, u) ==
    IF i > n THEN {[idx |-> 0, ub |-> u]}
    ELSE IF ts[i].freed
         THEN (IF ts[i].name = name THEN {[idx |-> i, ub |-> TRUE]} ELSE {})
              \cup sdb_table_find_from(ts, n, name, i + 1, TRUE)
    ELSE IF ts[i].name = name THEN {[idx |-> i, ub |-> u]}
    ELSE sdb_table_find_from(ts, n, name, i + 1, u)

\* the outcomes of sdb_table_find: the index found (0 for NULL) and whether
\* freed memory was read
sdb_table_find(ts, n, name) == sdb_table_find_from(ts, n, name, 1, FALSE)

\* size_t arithmetic wraps at 2^64; the hash is only reduced modulo the capacity,
\* a power of two that divides 2^16, so its low 16 bits decide the slot
RECURSIVE hash_string_from(_, _, _)
hash_string_from(str, i, hash) ==
    IF i <= strlen(str)
    THEN hash_string_from(str, i + 1, (hash * 32 + hash + str[i]) % (256 * 256))
    ELSE hash

hash_string(str) == hash_string_from(str, 1, HashSeed)

\* the linear probing loop of sdb_table_set: the slot it stops at
RECURSIVE probe_from(_, _, _, _)
probe_from(t, key, hash, fuel) ==
    LET entry == t.slots[hash + 1]
    IN  IF entry # 0 /\ t.entries[entry].key # key /\ fuel > 0
        THEN probe_from(t, key, (hash + 1) % t.capacity, fuel - 1)
        ELSE hash

probe(t, key) == probe_from(t, key, hash_string(key) % t.capacity, t.capacity)

\* the file sdb_save writes: both sizes, then the compressed image.  Every type
\* but SDB_COMPRESS_RLE takes the LZ77 branch.
sdb_file(ts, n, type) ==
    LET buffer == save_image(ts, n)
        current_size == Len(buffer)
        compressed == IF type = "SDB_COMPRESS_RLE" THEN rle_compress(buffer, current_size)
                      ELSE lz77_compress(buffer, current_size)
    IN  [compressed_size |-> compressed.len, original_size |-> current_size,
         body |-> compressed.data]

AnyFreed(ts, n) == \E i \in 1..n : ts[i].freed

\* sdb_save: the file is opened for writing (truncated) first, then the image is
\* built from every table, compressed and written (sdb_file gives the bytes).  Walking a freed table reads
\* freed memory: the stale bytes are written, or the process dies with the file
\* already truncated.
sdb_save(m) ==
    LET freed == AnyFreed(m.tables, m.table_count)
        written == [m EXCEPT !.disk = WrittenFile(m.tables, m.table_count),
                             !.nwrites = @ + 1, !.ub = @ \/ freed]
    IN  {written} \cup
        (IF freed THEN {Crash([m EXCEPT !.disk = EmptyFile, !.nwrites = @ + 1])} ELSE {})

\* sdb_table_set (the handle's compress_type is used by its sdb_save): find the table (a miss returns without saving); probe the index
\* (the slot found is not used); append a new entry at the tail; save.  A table
\* loaded by sdb_open has an unwritten capacity and slot array, and a freed table
\* a freed list: reading either is undefined behaviour, after which the call goes
\* on or the process dies before the file is touched.
sdb_table_set(m, type, table, key, value) ==
    UNION {
        IF f.idx = 0 THEN {[m EXCEPT !.ub = @ \/ f.ub]}
        ELSE LET t == m.tables[f.idx]
                 u == f.ub \/ t.freed \/ ~t.indexInit
                 e == [key |-> CString(key), value |-> CString(value)]
                 appended == [m EXCEPT !.tables[f.idx].entries = Append(@, e),
                                       !.ub = @ \/ u]
             IN  sdb_save(appended) \cup (IF u THEN {Crash(m)} ELSE {})
        : f \in sdb_table_find(m.tables, m.table_count, table) }

\* the walk of sdb_table_get from the head: the first entry with the key
first_entry(entries, key) ==
    IF \E j \in 1..Len(entries) : entries[j].key = key
    THEN CHOOSE j \in 1..Len(entries) :
             entries[j].key = key /\ \A h \in 1..(j - 1) : entries[h].key # key
    ELSE 0

\* sdb_table_get: NULL for a missing table and for a missing key alike
sdb_table_get(m, table, key) ==
    UNION {
        IF f.idx = 0 THEN {[ret |-> Null, ub |-> f.ub, crashed |-> FALSE]}
        ELSE LET t == m.tables[f.idx]
                 j == first_entry(t.entries, key)
                 u == f.ub \/ t.freed
             IN  {[ret |-> IF j = 0 THEN Null ELSE Pointer(t.entries[j].value),
                   ub |-> u, crashed |-> FALSE]}
                 \cup (IF u THEN {[ret |-> Null, ub |-> TRUE, crashed |-> TRUE]} ELSE {})
        : f \in sdb_table_find(m.tables, m.table_count, table) }

\* a creation that would also write the file with the table added
sdb_table_create_saving(m, name) ==
    [m EXCEPT !.table_count = @ + 1, !.tables = Append(@, NewTable(name)),
              !.disk = WrittenFile(Append(m.tables, NewTable(name)), m.table_count + 1),
              !.nwrites = @ + 1]

\* sdb_table_create: no lookup of the name; the table is appended
sdb_table_create(m, name) ==
    [m EXCEPT !.table_count = @ + 1, !.tables = Append(@, NewTable(name))]

\* sdb_table_destroy: every table with the name has its name, entries and index
\* freed; the array and table_count are left as they are.  Comparing a name
\* already freed reads freed memory (and a hit frees it again); the index array
\* of a table loaded by sdb_open is a pointer never written.
sdb_table_destroy(m, name) ==
    LET u == \/ AnyFreed(m.tables, m.table_count)
             \/ \E i \in 1..m.table_count :
                    m.tables[i].name = name /\ ~m.tables[i].indexInit
        freed == [i \in 1..Len(m.tables) |->
                     IF i <= m.table_count /\ m.tables[i].name = name
                     THEN [m.tables[i] EXCEPT !.freed = TRUE] ELSE m.tables[i]]
    IN  {[m EXCEPT !.tables = freed, !.ub = @ \/ u]} \cup (IF u THEN {Crash(m)} ELSE {})

\* sdb_close frees every table of the array: a table sdb_table_destroy has freed
\* is freed a second time
sdb_close(m) ==
    LET u == AnyFreed(m.tables, m.table_count)
        gone == [m EXCEPT !.tables = <<>>, !.table_count = 0, !.ub = @ \/ u]
    IN  {gone} \cup (IF u THEN {Crash(gone)} ELSE {})

\* sdb_open: no file gives an empty database.  Otherwise the header and the body
\* are read, the body is decompressed (every type but SDB_COMPRESS_RLE with LZ77),
\* and the image is decoded when a buffer came back and its length is
\* original_size.  A zero-length file leaves both sizes unwritten.
open_decoded(empty, r, img) ==
    {[empty EXCEPT !.tables = img.tables, !.table_count = img.table_count,
                   !.ub = r.fault # "none" \/ img.fault]}
    \cup (IF r.fault # "none" \/ img.fault THEN {Crash(empty)} ELSE {})

open_body(empty, file, r) ==
    IF r.null THEN {empty}
    ELSE IF r.len # file.original_size
         THEN {[empty EXCEPT !.ub = r.fault # "none"]}
              \cup (IF r.fault # "none" THEN {Crash(empty)} ELSE {})
    ELSE open_decoded(empty, r, open_image(r.data))

open_file(empty, file, type) ==
    open_body(empty, file,
              IF type = "SDB_COMPRESS_RLE"
              THEN rle_decompress(BufResult(file.body, file.compressed_size, "none"),
                                  file.compressed_size)
              ELSE lz77_decompress(BufResult(file.body, file.compressed_size, "none"),
                                   file.compressed_size))

\* what the fread of the body leaves in the malloc(compressed_size) buffer: the
\* first compressed_size bytes of the file's body, and, where the body is
\* shorter, bytes never written
body_read(d) ==
    IF Len(d.body) >= d.compressed_size
    THEN {SubSeq(d.body, 1, d.compressed_size)}
    ELSE {d.body \o rest : rest \in StringsOf(FileBytes, d.compressed_size - Len(d.body))}

sdb_open(d, type) ==
    IF d.state = "absent" THEN {Mem(<<>>, 0, d)}
    ELSE IF d.state = "empty"
         THEN {[Mem(<<>>, 0, d) EXCEPT !.ub = TRUE], Crash(Mem(<<>>, 0, d))}
    ELSE IF d.state = "raw"
         THEN UNION {open_file(Mem(<<>>, 0, d),
                               [compressed_size |-> d.compressed_size,
                                original_size |-> d.original_size, body |-> b], type)
                     : b \in body_read(d)}
    ELSE open_file(Mem(<<>>, 0, d), sdb_file(d.saved, d.saved_count, type), type)

(***************************************************************************)
(* The calls a program makes on the handle.  The program is single         *)
(* threaded: a call runs to its end before the next one starts.            *)
(* sdb_batch_execute is taken one loop iteration at a time (the operations *)
(* of its array are chosen as the loop reaches them), and nothing else     *)
(* runs until its final sdb_save has.                                      *)
(***************************************************************************)
Handle == [kind |-> "handle", value |-> <<>>]

Running == [kind |-> "running", value |-> <<>>]

NoReturn == [kind |-> "crashed", value |-> <<>>]

\* whether a table with the name is in the array and has not been freed
Exists(ts, n, name) == \E i \in 1..n : ~ts[i].freed /\ ts[i].name = name

Call(op, table, key, value) ==
    [op |-> op, table |-> table, key |-> key, value |-> value, n |-> 0,
     found |-> Exists(tables, table_count, table), count |-> table_count,
     same |-> TRUE, file |-> disk.state]

\* What a reader of the calls made so far expects a key to hold: the value of the
\* last plain sdb_table_set on a table that was there; <<>> when there was none,
\* or when a batch wrote the key or the table was destroyed since.
Expecting(table, key, value) == [expect EXCEPT ![<<table, key>>] = value]

Forgetting(table) ==
    [x \in TableNames \X Keys |-> IF x[1] = table THEN <<>> ELSE expect[x]]

WithinBounds(m) ==
    /\ Len(m.tables) <= MaxTables
    /\ \A i \in 1..Len(m.tables) : Len(m.tables[i].entries) <= MaxEntries

\* the state a call (or a step of it) leaves; a crash ends the process and with
\* it the handle
Leave(m, call, r, next_pc, expected) ==
    /\ WithinBounds(m)
    /\ status' = IF m.crashed THEN "crashed" ELSE "open"
    /\ tables' = IF m.crashed THEN <<>> ELSE m.tables
    /\ table_count' = IF m.crashed THEN 0 ELSE m.table_count
    /\ disk' = m.disk
    /\ nwrites' = m.nwrites
    /\ ub' = m.ub
    /\ last' = [call EXCEPT !.same = ~m.crashed /\ m.tables = tables
                                      /\ m.table_count = table_count /\ m.disk = disk]
    /\ ret' = IF m.crashed THEN NoReturn ELSE r
    /\ pc' = IF m.crashed THEN "idle" ELSE next_pc
    /\ expect' = IF m.crashed THEN expect ELSE expected
    /\ UNCHANGED <<compress_type, cin, cmid, cout, cpc, decoded>>

Here == Mem(tables, table_count, disk)

\* a new call can be made
Ready ==
    /\ status = "open"
    /\ pc = "idle"
    /\ calls < MaxCalls
    /\ calls' = calls + 1

CreateTable ==
    /\ Ready
    /\ \E name \in TableNames :
           Leave(sdb_table_create(Here, name), Call("create", name, <<>>, <<>>), Void, "idle",
                 expect)

DestroyTable ==
    /\ Ready
    /\ \E name \in TableNames :
           \E m \in sdb_table_destroy(Here, name) :
               Leave(m, Call("destroy", name, <<>>, <<>>), Void, "idle", Forgetting(name))

Set ==
    /\ Ready
    /\ \E table \in TableNames, key \in Keys, value \in Values :
           \E m \in sdb_table_set(Here, compress_type, table, key, value) :
               Leave(m, Call("set", table, key, value), Void, "idle",
                     IF Exists(tables, table_count, table)
                     THEN Expecting(table, key, value) ELSE expect)

Get ==
    /\ Ready
    /\ \E table \in TableNames, key \in Keys :
           \E g \in sdb_table_get(Here, table, key) :
               Leave([Here EXCEPT !.ub = g.ub, !.crashed = g.crashed],
                     Call("get", table, key, <<>>), g.ret, "idle", expect)

\* sdb_batch_execute is entered: i = 0
BatchBegin ==
    /\ Ready
    /\ Leave(Here, Call("batch", <<>>, <<>>, <<>>), Running, "batch", expect)

\* one iteration of the for loop of sdb_batch_execute: sdb_table_set(ops[i])
BatchOperation ==
    /\ status = "open"
    /\ pc = "batch"
    /\ last.n < MaxBatch
    /\ \E table \in TableNames, key \in Keys, value \in Values :
           \E m \in sdb_table_set([Here EXCEPT !.nwrites = nwrites, !.ub = ub],
                                  compress_type, table, key, value) :
               Leave(m, [last EXCEPT !.n = @ + 1], Running, "batch",
                     Expecting(table, key, <<>>))
    /\ UNCHANGED calls

\* the for loop of sdb_batch_execute is left: the sdb_save at its end
BatchEnd ==
    /\ status = "open"
    /\ pc = "batch"
    /\ \E m \in sdb_save([Here EXCEPT !.nwrites = nwrites, !.ub = ub]) :
           Leave(m, last, Void, "idle", expect)
    /\ UNCHANGED calls

Close ==
    /\ Ready
    /\ \E m \in sdb_close(Here) :
           /\ status' = IF m.crashed THEN "crashed" ELSE "closed"
           /\ tables' = <<>>
           /\ table_count' = 0
           /\ ub' = m.ub
           /\ nwrites' = 0
           /\ last' = Call("close", <<>>, <<>>, <<>>)
           /\ ret' = IF m.crashed THEN NoReturn ELSE Void
           /\ UNCHANGED <<disk, pc, expect, compress_type, cin, cmid, cout, cpc, decoded>>

\* the program, or a new run of it after a crash, opens the path again
Open ==
    /\ status \in {"closed", "crashed"}
    /\ calls < MaxCalls
    /\ calls' = calls + 1
    /\ \E m \in sdb_open(disk, compress_type) :
           Leave(m, Call("open", <<>>, <<>>, <<>>), Handle, "idle", expect)

\* the first sdb_open of a path that holds no file yet
Init ==
    /\ status = "open"
    /\ compress_type \in CompressTypes
    /\ tables = <<>>
    /\ table_count = 0
    /\ disk = NoFile
    /\ last = [op |-> "open", table |-> <<>>, key |-> <<>>, value |-> <<>>, n |-> 0,
               found |-> FALSE, count |-> 0, same |-> TRUE, file |-> "absent"]
    /\ ret = Handle
    /\ nwrites = 0
    /\ ub = FALSE
    /\ pc = "idle"
    /\ calls = 0
    /\ expect = [x \in TableNames \X Keys |-> <<>>]
    /\ cin = <<>>
    /\ cmid = NullResult
    /\ cout = NullResult
    /\ cpc = "off"
    /\ decoded = NoImage

Next ==
    \/ CreateTable \/ DestroyTable \/ Set \/ Get
    \/ BatchBegin \/ BatchOperation \/ BatchEnd \/ Close \/ Open

Spec == Init /\ [][Next]_vars

(***************************************************************************)
(* The codecs on their own: a caller hands a byte string to a compressor   *)
(* and what comes back, pointer and *out_len, to the decompressor of the   *)
(* same codec.  A size_t the callee did not write holds whatever the       *)
(* caller's variable held.                                                 *)
(***************************************************************************)
CodecInputs == StringsUpTo(Alphabet, MaxLen) \cup {RunOf(b, LongRun) : b \in Alphabet}

\* what the caller sees of a codec call: the result with *out_len as it reads it
Reported(r) == {[r EXCEPT !.len = n] : n \in IF r.lenSet THEN {r.len} ELSE Indeterminate}

\* how a codec call ends: it returns, or, having written or read outside a
\* buffer, it may also end the process
Endings(r) == {"returns"} \cup (IF r.fault # "none" THEN {"crashes"} ELSE {})

RleCompress ==
    /\ cpc = "input"
    /\ \E r \in Reported(rle_compress(cin, Len(cin))), e \in Endings(rle_compress(cin, Len(cin))) :
           /\ cmid' = r
           /\ cpc' = IF e = "crashes" THEN "crashed" ELSE "rle_compressed"
    /\ UNCHANGED <<dbvars, cin, cout, decoded>>

RleDecompress ==
    /\ cpc = "rle_compressed"
    /\ \E r \in Reported(rle_decompress(cmid, cmid.len)), e \in Endings(rle_decompress(cmid, cmid.len)) :
           /\ cout' = r
           /\ cpc' = IF e = "crashes" THEN "crashed" ELSE "rle_done"
    /\ UNCHANGED <<dbvars, cin, cmid, decoded>>

Lz77Compress ==
    /\ cpc = "input"
    /\ \E r \in Reported(lz77_compress(cin, Len(cin))), e \in Endings(lz77_compress(cin, Len(cin))) :
           /\ cmid' = r
           /\ cpc' = IF e = "crashes" THEN "crashed" ELSE "lz77_compressed"
    /\ UNCHANGED <<dbvars, cin, cout, decoded>>

Lz77Decompress ==
    /\ cpc = "lz77_compressed"
    /\ \E r \in Reported(lz77_decompress(cmid, cmid.len)), e \in Endings(lz77_decompress(cmid, cmid.len)) :
           /\ cout' = r
           /\ cpc' = IF e = "crashes" THEN "crashed" ELSE "lz77_done"
    /\ UNCHANGED <<dbvars, cin, cmid, decoded>>

InitCodec ==
    /\ status = "closed"
    /\ compress_type = "SDB_COMPRESS_NONE"
    /\ tables = <<>>
    /\ table_count = 0
    /\ disk = NoFile
    /\ last = [op |-> "none", table |-> <<>>, key |-> <<>>, value |-> <<>>, n |-> 0,
               found |-> FALSE, count |-> 0, same |-> TRUE, file |-> "absent"]
    /\ ret = Void
    /\ nwrites = 0
    /\ ub = FALSE
    /\ pc = "idle"
    /\ calls = 0
    /\ expect = [x \in TableNames \X Keys |-> <<>>]
    /\ cin \in CodecInputs
    /\ cmid = NullResult
    /\ cout = NullResult
    /\ cpc = "input"
    /\ decoded = NoImage

NextCodec == RleCompress \/ RleDecompress \/ Lz77Compress \/ Lz77Decompress

SpecCodec == InitCodec /\ [][NextCodec]_vars

(***************************************************************************)
(* The serializer on its own: the image sdb_save builds of a database, and *)
(* what the decoding loop of sdb_open makes of that image.  The databases  *)
(* are those sdb_table_create, sdb_table_set and sdb_batch_execute build:  *)
(* any sequence of tables of any names (no name is refused), each with any *)
(* sequence of entries (every set appends one).                            *)
(***************************************************************************)
EntryLists == UNION {[1..k -> [key : Keys, value : Values]] : k \in 0..ImageEntries}

BuiltTables == {[NewTable(name) EXCEPT !.entries = es] : name \in TableNames, es \in EntryLists}

Databases == UNION {[1..k -> BuiltTables] : k \in 0..ImageTables}

\* sdb_save up to the compression: the image of the tables
Encode ==
    /\ cpc = "database"
    /\ cin' = save_image(tables, table_count)
    /\ cpc' = "encoded"
    /\ UNCHANGED <<dbvars, cmid, cout, decoded>>

\* sdb_open from the decompressed buffer on: the tables decoded from the image
Decode ==
    /\ cpc = "encoded"
    /\ decoded' = open_image(cin)
    /\ cpc' = "decoded"
    /\ UNCHANGED <<dbvars, cin, cmid, cout>>

InitImage ==
    /\ status = "open"
    /\ compress_type = "SDB_COMPRESS_NONE"
    /\ tables \in Databases
    /\ table_count = Len(tables)
    /\ disk = NoFile
    /\ last = [op |-> "none", table |-> <<>>, key |-> <<>>, value |-> <<>>, n |-> 0,
               found |-> FALSE, count |-> 0, same |-> TRUE, file |-> "absent"]
    /\ ret = Void
    /\ nwrites = 0
    /\ ub = FALSE
    /\ pc = "idle"
    /\ calls = 0
    /\ expect = [x \in TableNames \X Keys |-> <<>>]
    /\ cin = <<>>
    /\ cmid = NullResult
    /\ cout = NullResult
    /\ cpc = "database"
    /\ decoded = NoImage

NextImage == Encode \/ Decode

SpecImage == InitImage /\ [][NextImage]_vars

(***************************************************************************)
(* sdb_open of a path that holds no file, or a file something else than    *)
(* sdb_save wrote: any header, any body, the body possibly shorter than    *)
(* the header declares.                                                    *)
(***************************************************************************)
RawFiles ==
    {RawFile(c, o, b) : c \in 0..MaxBody, o \in 0..MaxBody,
                        b \in UNION {StringsOf(FileBytes, n) : n \in 0..MaxBody}}

InitFile ==
    /\ status = "closed"
    /\ compress_type \in CompressTypes
    /\ tables = <<>>
    /\ table_count = 0
    /\ disk \in {NoFile} \cup RawFiles
    /\ last = [op |-> "none", table |-> <<>>, key |-> <<>>, value |-> <<>>, n |-> 0,
               found |-> FALSE, count |-> 0, same |-> TRUE, file |-> "absent"]
    /\ ret = Void
    /\ nwrites = 0
    /\ ub = FALSE
    /\ pc = "idle"
    /\ calls = 0
    /\ expect = [x \in TableNames \X Keys |-> <<>>]
    /\ cin = <<>>
    /\ cmid = NullResult
    /\ cout = NullResult
    /\ cpc = "off"
    /\ decoded = NoImage

NextFile == Open

SpecFile == InitFile /\ [][NextFile]_vars

(***************************************************************************)
(* The decoding loop of sdb_open on a buffer that is not the image of a    *)
(* database: an image cut short at any position, or any few bytes.         *)
(***************************************************************************)
Images == {save_image(d, Len(d)) : d \in Databases}

CutImages ==
    UNION {{SubSeq(image, 1, n) : n \in 0..(Len(image) - 1)} : image \in Images}

InitDecode ==
    /\ status = "open"
    /\ compress_type = "SDB_COMPRESS_NONE"
    /\ tables = <<>>
    /\ table_count = 0
    /\ disk = NoFile
    /\ last = [op |-> "none", table |-> <<>>, key |-> <<>>, value |-> <<>>, n |-> 0,
               found |-> FALSE, count |-> 0, same |-> TRUE, file |-> "absent"]
    /\ ret = Void
    /\ nwrites = 0
    /\ ub = FALSE
    /\ pc = "idle"
    /\ calls = 0
    /\ expect = [x \in TableNames \X Keys |-> <<>>]
    /\ cin \in CutImages \cup UNION {StringsOf(FileBytes, n) : n \in 0..MaxBody}
    /\ cmid = NullResult
    /\ cout = NullResult
    /\ cpc = "encoded"
    /\ decoded = NoImage

NextDecode == Decode

SpecDecode == InitDecode /\ [][NextDecode]_vars

(***************************************************************************)
(* lz77_decompress on any bytes: token streams lz77_compress did not       *)
(* write, a literal and a match token long at most.                        *)
(***************************************************************************)
TokenStreams == UNION {StringsOf(FileBytes, n) : n \in 0..(MaxBody + 2)}

InitTokens ==
    /\ status = "closed"
    /\ compress_type = "SDB_COMPRESS_LZ77"
    /\ tables = <<>>
    /\ table_count = 0
    /\ disk = NoFile
    /\ last = [op |-> "none", table |-> <<>>, key |-> <<>>, value |-> <<>>, n |-> 0,
               found |-> FALSE, count |-> 0, same |-> TRUE, file |-> "absent"]
    /\ ret = Void
    /\ nwrites = 0
    /\ ub = FALSE
    /\ pc = "idle"
    /\ calls = 0
    /\ expect = [x \in TableNames \X Keys |-> <<>>]
    /\ cin = <<>>
    /\ cmid \in {BufResult(b, Len(b), "none") : b \in TokenStreams}
    /\ cout = NullResult
    /\ cpc = "lz77_compressed"
    /\ decoded = NoImage

NextTokens == Lz77Decompress

SpecTokens == InitTokens /\ [][NextTokens]_vars

(***************************************************************************)
(* The run-length codec on runs around and beyond the 255 one pair holds.  *)
(***************************************************************************)
RleInputs ==
    StringsUpTo(Alphabet, MaxLen)
        \cup {RunOf(b, n) : b \in Alphabet, n \in {CapRun - 1, CapRun, 2 * CapRun}}

InitRle ==
    /\ status = "closed"
    /\ compress_type = "SDB_COMPRESS_RLE"
    /\ tables = <<>>
    /\ table_count = 0
    /\ disk = NoFile
    /\ last = [op |-> "none", table |-> <<>>, key |-> <<>>, value |-> <<>>, n |-> 0,
               found |-> FALSE, count |-> 0, same |-> TRUE, file |-> "absent"]
    /\ ret = Void
    /\ nwrites = 0
    /\ ub = FALSE
    /\ pc = "idle"
    /\ calls = 0
    /\ expect = [x \in TableNames \X Keys |-> <<>>]
    /\ cin \in RleInputs
    /\ cmid = NullResult
    /\ cout = NullResult
    /\ cpc = "input"
    /\ decoded = NoImage

NextRle == RleCompress \/ RleDecompress

SpecRle == InitRle /\ [][NextRle]_vars

(***************************************************************************)
(* One handle from its first sdb_open to its sdb_close: tables are         *)
(* created, set, read and destroyed, and the handle is closed once.        *)
(***************************************************************************)
NextLifetime == CreateTable \/ Set \/ DestroyTable \/ Get \/ Close

SpecLifetime == Init /\ [][NextLifetime]_vars

(***************************************************************************)
(* Properties                                                              *)
(***************************************************************************)
\* the handle is live and no call is in progress
Settled == status = "open" /\ pc = "idle"

\* no table of the array has been freed by sdb_table_destroy
NoneFreed == ~AnyFreed(tables, table_count)

\* C1: in a state where table t exists, set(t,k,v) followed immediately by
\* get(t,k) returns v, also when k already held a different value.
SetThenGet ==
    (Settled /\ NoneFreed /\ last.op = "set" /\ last.found)
        => \A g \in sdb_table_get(Here, last.table, last.key) :
               g.ret = Pointer(last.value)

\* C2: after any sequence of set and batch operations no table holds two
\* entries with the same key (a set on a present key updates it in place).
KeysUnique ==
    (status = "open" /\ NoneFreed)
        => \A i \in 1..table_count :
               \A a, b \in 1..Len(tables[i].entries) :
                   a # b => tables[i].entries[a].key # tables[i].entries[b].key

\* C3: after createTable and plain sets, close and open of the same path with
\* the same mode give a database in which get(t,k) returns the value last set
\* for every key that was set, in each compression mode.
ReopenKeepsLastValues ==
    (Settled /\ last.op = "open" /\ ~ub)
        => \A x \in TableNames \X Keys :
               expect[x] # <<>>
                   => \A g \in sdb_table_get(Here, x[1], x[2]) : g.ret = Pointer(expect[x])

\* C4: a batch writes the file exactly once, after its last operation: no
\* write while its operations are applied, one when it has returned.
BatchWritesOnce ==
    (status = "open" /\ last.op = "batch")
        => nwrites = (IF pc = "batch" THEN 0 ELSE 1)

\* C5: after destroyTable on an existing table the table count is one less
\* than before and a lookup of the name misses.
DestroyRemoves ==
    (Settled /\ last.op = "destroy" /\ last.found)
        => /\ table_count = last.count - 1
           /\ \A f \in sdb_table_find(tables, table_count, last.table) : f.idx = 0

\* the table names and the ordered (key, value) lists of a table array
Contents(ts, n) == [i \in 1..n |-> [name |-> ts[i].name, entries |-> ts[i].entries]]

Lz77RoundTrip ==
    cpc \in {"lz77_done", "crashed"}
        => /\ cpc = "lz77_done"
           /\ cout.fault = "none"
           /\ cout.data = cin
           /\ cout.len = Len(cin)

\* C8: rle_decompress(rle_compress(x)) returns exactly x and reports the
\* length len(x), for every byte string x: empty, one byte, all bytes
\* identical, no byte repeated.
RleRoundTrip ==
    cpc = "rle_done"
        => /\ cout.fault = "none"
           /\ cout.data = cin
           /\ cout.len = Len(cin)

\* C9: createTable with a name that is already in the database is rejected
\* with DuplicateTableName and leaves the table collection as it was.
DuplicateCreateRejected ==
    (Settled /\ NoneFreed /\ last.op = "create" /\ last.found)
        => /\ ret.kind = "DuplicateTableName"
           /\ table_count = last.count
           /\ last.same

\* what a call on a table that is there can hand back: nothing (set, destroy),
\* a value (get, hit), NULL (get, key miss)
Ordinary == {Void.kind, Pointer(<<>>).kind, Null.kind}

\* C10: set, get and destroyTable on a table name that is not in the database
\* give the caller an outcome no call on an existing table gives (for get, not
\* the one of a key miss either), and leave memory and file as they were.
UnknownTableReported ==
    (Settled /\ NoneFreed /\ last.op \in {"set", "get", "destroy"} /\ ~last.found)
        => /\ ret.kind \notin Ordinary
           /\ last.same

\* the body of the file is shorter than the header's compressed_size
Truncated == Len(disk.body) < disk.compressed_size

\* what decompressing the body gives when the file holds all of it
Decompressed ==
    IF compress_type = "SDB_COMPRESS_RLE"
    THEN rle_decompress(BufResult(SubSeq(disk.body, 1, disk.compressed_size),
                                  disk.compressed_size, "none"), disk.compressed_size)
    ELSE lz77_decompress(BufResult(SubSeq(disk.body, 1, disk.compressed_size),
                                   disk.compressed_size, "none"), disk.compressed_size)

\* no buffer comes back, or its length is not the header's original_size
LengthDiffers == Decompressed.null \/ Decompressed.len # disk.original_size

\* C11: when the file does not exist, when its body is shorter than the
\* compressed_size of its header, or when the decompressed length differs from
\* original_size, open returns a handle to a database of zero tables and reads
\* nothing out of bounds.
OpenRecovers ==
    (/\ last.op = "open"
     /\ \/ disk.state = "absent"
        \/ disk.state = "raw" /\ (Truncated \/ LengthDiffers))
        => /\ status = "open"
           /\ ret = Handle
           /\ table_count = 0
           /\ ~ub

\* C12: while an image is decoded, every length and count field is checked
\* against the bytes left in the buffer, so no read is made at or beyond the
\* end of the buffer (an overrunning field is reported as corrupted data).
DecoderStaysInBuffer ==
    cpc = "decoded" => ~decoded.fault

\* C13: for any input bytes lz77_decompress makes no read before the start of
\* the output or past the end of the input: a match token whose offset is zero
\* or greater than the bytes produced so far, and a token cut by the end of the
\* input, are rejected.
TokenStreamChecked ==
    cpc \in {"lz77_done", "crashed"}
        => cout.fault \notin {"read_before_output", "read_uninitialized", "read_past_input"}

\* C14: a save overwrites (truncates or writes) the file only when the image
\* is completely built in memory, so a failure while the image is built leaves
\* the file that was there as it was.
SaveKeepsFile ==
    (status = "crashed" /\ last.file = "written") => disk.state = "written"

\* C15: get returns not-found for a table that is not there and for a key that
\* was never inserted, and after any get the in-memory tables, entries and
\* index and the file are what they were before the call.
GetChangesNothing ==
    last.op = "get"
        => /\ status = "open"
           /\ last.same
           /\ (~last.found => ret = Null)
           /\ \A f \in sdb_table_find(tables, table_count, last.table) :
                  (/\ f.idx # 0
                   /\ \A j \in 1..Len(tables[f.idx].entries) :
                          tables[f.idx].entries[j].key # last.key)
                      => ret = Null

\* the slots of a table's index that hold an entry
Occupied(t) == {h \in 1..Len(t.slots) : t.slots[h] # 0}

\* C16: after any sequence of sets every table's index has a capacity of at
\* least 16, at most 0.7 of its slots are occupied, and every entry of the
\* table is reached by linear probing from hash(key) mod capacity before an
\* empty slot.
IndexReachesEntries ==
    status = "open"
        => \A i \in 1..table_count :
               (~tables[i].freed /\ tables[i].indexInit)
                   => /\ tables[i].capacity >= InitialCapacity
                      /\ 10 * Cardinality(Occupied(tables[i])) <= 7 * tables[i].capacity
                      /\ \A j \in 1..Len(tables[i].entries) :
                             tables[i].slots[probe(tables[i], tables[i].entries[j].key) + 1] # 0

\* the (count, value) pairs of the output of rle_compress
PairCount == Len(cmid.data) \div 2

PairRun(p) == cmid.data[2 * p - 1]

PairValue(p) == cmid.data[2 * p]

\* C17: rle_compress emits one (count, value) pair per maximal run of identical
\* bytes, runs capped at 255, with 1 <= count <= 255: the output length is even
\* and at most 2 * len(x), it is the length reported when one is, and for n
\* identical bytes it is exactly 2 * ceil(n / 255).
RlePairsOfRuns ==
    cpc \in {"rle_compressed", "rle_done"}
        => /\ Len(cmid.data) % 2 = 0
           /\ Len(cmid.data) <= 2 * Len(cin)
           /\ cmid.lenSet => cmid.len = Len(cmid.data)
           /\ \A p \in 1..PairCount : PairRun(p) \in 1..MaxRun
           /\ \A p \in 1..(PairCount - 1) :
                  PairValue(p) = PairValue(p + 1) => PairRun(p) = MaxRun
           /\ (\A i \in 1..Len(cin) : cin[i] = cin[1])
                  => Len(cmid.data) = 2 * ((Len(cin) + MaxRun - 1) \div MaxRun)

\* a run one byte longer than a pair holds, compressed to two pairs
RlePairsOfRunsWitness ==
    /\ cpc = "rle_compressed"
    /\ Len(cin) = CapRun
    /\ PairCount = 2
    /\ PairRun(1) = MaxRun

\* C18: for a stream produced by lz77_compress, lz77_decompress never writes
\* past its output buffer: the bytes it has written never exceed 2 * comp_len.
Lz77OutputFits ==
    cpc = "lz77_done" => Len(cout.data) <= 2 * cmid.len

\* C19: across any sequence of create, set, destroy, get and save calls and the
\* final close, every table, entry list, entry, key and value is freed at most
\* once and none is read after it was freed.
FreedOnce == ~ub

\* C20: every table of an open handle, the tables sdb_open loaded included, has
\* an initialized hash index (capacity at least 16 and an allocated slot array
\* of that many slots), so a set on a loaded table reads only initialized state.
LoadedIndexInitialized ==
    status = "open"
        => \A i \in 1..table_count :
               ~tables[i].freed
                   => /\ tables[i].indexInit
                      /\ tables[i].capacity >= InitialCapacity
                      /\ Len(tables[i].slots) = tables[i].capacity

\* the calls that contain no sdb_save
NonWriting == {"create", "destroy", "get", "close"}

\* C21: only set and batch write the file.  A step of sdb_table_create,
\* sdb_table_destroy, sdb_table_get or sdb_close leaves the file exactly as it
\* was; a set that found its table and returned, and the end of a batch that
\* returned, leave in the file the tables as they are at that moment.  So at any
\* later point, after sdb_close too, the file is the one the last such set or
\* batch wrote, whatever was created or destroyed since.
OnlySetAndBatchWrite ==
    [][/\ last'.op \in NonWriting => disk' = disk
       /\ (last'.op = "set" /\ last'.found /\ status' = "open")
              => disk' = WrittenFile(tables', table_count')
       /\ (last'.op = "set" /\ status' = "open")
              => (disk' = disk \/ disk' = WrittenFile(tables', table_count'))
       /\ (pc = "batch" /\ pc' = "idle" /\ status' = "open")
              => disk' = WrittenFile(tables', table_count')]_vars

\* the handle has been closed with a file on disk that an earlier set or batch
\* wrote and that lacks a table created since
OnlySetAndBatchWriteWitness ==
    /\ status = "closed"
    /\ last.op = "close"
    /\ disk.state = "written"
    /\ last.count > disk.saved_count

=============================================================================
